---- MODULE Spec2Model ----
(***************************************************************************)
(* Model of the sales dashboard (src/perdaymob.py): the credential store   *)
(* and the page routing of one script run, user management, and the        *)
(* filter / aggregation pipeline of main_dashboard_ui.                     *)
(*                                                                         *)
(* Two specifications share the variables:                                 *)
(*   Spec      the script runs of one browser session: credentials,        *)
(*             login, routing, user management (add / edit / delete);      *)
(*   SpecDash  one call of main_dashboard_ui, statement by statement,      *)
(*             for every dataset, role and scope value of the bounds.      *)
(***************************************************************************)
EXTENDS Integers, Sequences, FiniteSets, TLC

\* ------------------------------------------------------------------ bounds
\* Largest number of raw rows in the ingested file.
MaxRows == 2
\* Largest number of accounts besides 'superadmin' in the credential store.
MaxUsers == 1

\* ------------------------------------------------------- program constants
\* timedelta(days=1): the previous day of the comparison.
PreviousDayDelta == 1
\* timedelta(days=6): the 7-day window is [D-6, D].
SevenDayDelta == 6

\* ------------------------------------------------------------ raw dataset
\* A missing cell of the raw file (None / NaN in pandas).
Null == "<NA>"
\* pandas NaT: the result of a date that does not parse.
NaT == 0
\* NaN of a numeric column: numbers are <<n>>, NaN is <<>>.
NaN == << >>

\* The rows a raw file is made of; the index is the pandas row index.
\* Row 3 has no BP Code and no CustomerClass, row 4 no ASM and an
\* unparseable line value, row 5 an unparseable invoice date.
RawRows ==
  << [InvDate |-> "2024-01-08", qty |-> "500",   val |-> "1000", InvNum |-> "I1",
      RGM |-> "R1", DSM |-> "D1", ASM |-> "A1", SO |-> "S1",
      CustomerClass |-> "Retail", JCPeriodNum |-> "JC1",
      BPCode |-> "B1", BPName |-> "N1", ProductCategory |-> "P1",
      upd_prod_ctg |-> "U1"],
     [InvDate |-> "2024-01-08", qty |-> "1,500", val |-> "2000", InvNum |-> "I2",
      RGM |-> "R2", DSM |-> "D2", ASM |-> "A2", SO |-> "S2",
      CustomerClass |-> "Wholesale", JCPeriodNum |-> "JC1",
      BPCode |-> "B2", BPName |-> "N2", ProductCategory |-> "P2",
      upd_prod_ctg |-> "U2"],
     [InvDate |-> "2024-01-07", qty |-> "300",   val |-> "500",  InvNum |-> "I3",
      RGM |-> "R1", DSM |-> "D1", ASM |-> "A2", SO |-> "S1",
      CustomerClass |-> Null, JCPeriodNum |-> "JC1",
      BPCode |-> Null, BPName |-> "N3", ProductCategory |-> "P1",
      upd_prod_ctg |-> Null],
     [InvDate |-> "2024-01-01", qty |-> "200",   val |-> "abc",  InvNum |-> "I4",
      RGM |-> "R1", DSM |-> "D2", ASM |-> Null, SO |-> "S2",
      CustomerClass |-> "Retail", JCPeriodNum |-> "JC2",
      BPCode |-> "B1", BPName |-> "N1", ProductCategory |-> "P2",
      upd_prod_ctg |-> "U1"],
     [InvDate |-> "bad-date", qty |-> "100",   val |-> "500",  InvNum |-> "I5",
      RGM |-> "R1", DSM |-> "D1", ASM |-> "A1", SO |-> "S1",
      CustomerClass |-> "Retail", JCPeriodNum |-> "JC1",
      BPCode |-> "B1", BPName |-> "N1", ProductCategory |-> "P1",
      upd_prod_ctg |-> "U1"] >>

\* The raw files of the bounds: any rows of RawRows, at most MaxRows of them.
RawFiles == {S \in SUBSET (1..Len(RawRows)) : Cardinality(S) <= MaxRows}

\* pd.to_datetime(format='%Y-%m-%d', errors='coerce'): the day number of a
\* well-formed date of January 2024, NaT for anything else.
ToDatetime(s) ==
  CASE s = "2024-01-01" -> 1
    [] s = "2024-01-02" -> 2
    [] s = "2024-01-03" -> 3
    [] s = "2024-01-04" -> 4
    [] s = "2024-01-05" -> 5
    [] s = "2024-01-06" -> 6
    [] s = "2024-01-07" -> 7
    [] s = "2024-01-08" -> 8
    [] s = "2024-01-09" -> 9
    [] OTHER -> NaT

\* pd.to_numeric(col.astype(str).str.replace(',', ''), errors='coerce').
ToNumeric(s) ==
  CASE s = "100"   -> <<100>>
    [] s = "200"   -> <<200>>
    [] s = "300"   -> <<300>>
    [] s = "500"   -> <<500>>
    [] s = "700"   -> <<700>>
    [] s = "1000"  -> <<1000>>
    [] s = "1,500" -> <<1500>>
    [] s = "2000"  -> <<2000>>
    [] OTHER -> NaN

\* key_cols of load_main_data_from_ftp, as far as the rows carry them: the
\* columns whose missing cells become 'Unknown'.  'BP Code' is not among them.
key_cols == {"ASM", "RGM", "DSM", "SO", "ProductCategory", "BPName",
             "CustomerClass", "JCPeriodNum", "upd_prod_ctg"}

\* df[col].fillna('Unknown')
FillNa(v) == IF v = Null THEN "Unknown" ELSE v

\* One row after the normalisation of load_main_data_from_ftp.
NormalizeRow(i) ==
  LET raw == RawRows[i] IN
  [idx |-> i,
   InvDate |-> ToDatetime(raw.InvDate),
   qty |-> ToNumeric(raw.qty),
   val |-> ToNumeric(raw.val),
   InvNum |-> raw.InvNum,
   RGM |-> FillNa(raw.RGM), DSM |-> FillNa(raw.DSM),
   ASM |-> FillNa(raw.ASM), SO |-> FillNa(raw.SO),
   CustomerClass |-> FillNa(raw.CustomerClass),
   JCPeriodNum |-> FillNa(raw.JCPeriodNum),
   BPCode |-> raw.BPCode,
   BPName |-> FillNa(raw.BPName),
   ProductCategory |-> FillNa(raw.ProductCategory),
   upd_prod_ctg |-> FillNa(raw.upd_prod_ctg)]

\* The dataframe load_main_data_from_ftp returns for a raw file: rows whose
\* date does not parse are dropped, the others normalised.
Normalize(file) ==
  {NormalizeRow(i) : i \in {j \in file : ToDatetime(RawRows[j].InvDate) # NaT}}


\* ------------------------------------------------------------------ state
VARIABLES
  \* the credential store and one browser session (specification Spec)
  store,                  \* credentials.json on the FTP server
  credentials,            \* the dictionary the last script run worked on
  authentication_status,  \* st.session_state["authentication_status"]
  username,               \* st.session_state["username"]
  page,                   \* the "Navigation" radio of the sidebar
  last,                   \* what the last script run did
  \* one call of main_dashboard_ui (specification SpecDash)
  df_main,                \* the dataframe of load_main_data_from_ftp
  columns,                \* the optional columns the file carries
  user_role,
  user_filter_value,
  pc,                     \* the statement main_dashboard_ui is at
  df,                     \* the dataframe after the access-scope restriction
  df_hierarchical_filtered,
  offered,                \* whether the last cascading filter was shown
  selected,               \* the selection of the last cascading filter
  start_date_display,
  end_date_display,
  df_filtered,
  warnings,               \* the st.warning messages emitted
  summary,                \* the five summary metrics, once computed
  kpi,                    \* the three comparative volumes, once computed
  view_selection,
  table,                  \* the raw aggregate of the chosen view
  prev,                   \* the comparison the previous run displayed
  display,                \* the table st.dataframe and WhatsApp are given
  export,                 \* the table to_csv writes for the download button
  \* the data load of the script runs (specification SpecIngest)
  remote,                 \* the parquet file on the FTP server
  cache,                  \* the st.cache_data entry of load_main_data_from_ftp
  ipc,                    \* where the script run is with the data load
  attempt,                \* the fetch attempts of the current download
  waited,                 \* the seconds slept by the current download
  fetched,                \* how the last fetch attempt ended
  received,               \* what the run got from load_main_data_from_ftp
  fresh                   \* whether the run executed the function body

appVars == <<store, credentials, authentication_status, username, page, last>>
dashVars == <<df_main, columns, user_role, user_filter_value, pc, df,
              df_hierarchical_filtered, offered, selected, start_date_display,
              end_date_display, df_filtered, warnings, summary, kpi,
              view_selection, table, prev, display, export>>
dashRun == <<user_role, user_filter_value, pc, df, df_hierarchical_filtered,
             offered, selected, start_date_display, end_date_display,
             df_filtered, warnings, summary, kpi, view_selection, table, prev,
             display, export>>
ingestVars == <<remote, cache, ipc, attempt, waited, fetched, received, fresh>>
vars == <<appVars, dashVars, ingestVars>>

\* ------------------------------------------------------- roles and scopes
\* The roles the code branches on.
KnownRoles == {"SUPER_ADMIN", "ADMIN", "RGM", "DSM", "ASM", "SO"}
\* user_details.get("role") of an account record without a role is None; any
\* other string is a role the code knows nothing about.
UnknownRoles == {"None", "GUEST"}

\* A scope value (filter_value of an account): None, one name, a list.
NoneValue == [kind |-> "none", v |-> {}]
Str(x) == [kind |-> "str", v |-> {x}]
List(S) == [kind |-> "list", v |-> S]

\* The names of one hierarchy column anywhere in the raw rows.
Names(col) == {FillNa(RawRows[i][col]) : i \in 1..Len(RawRows)}

\* The scope values tried for a role.
ScopeValues(role) ==
  CASE role \in {"RGM", "SO"} ->
         {Str(x) : x \in Names(role)} \cup {NoneValue}
    [] role \in {"DSM", "ASM"} ->
         {List(S) : S \in SUBSET (Names(role) \ {"Unknown"})}
           \cup {Str(x) : x \in Names(role)} \cup {NoneValue}
    [] OTHER -> {NoneValue}

\* ---------------------------------------------------- dataframe operators
\* The options drawn from every name of the column, not from d.
OptionsOfAllData(d, col) == Names(col)

\* sorted(d[col].unique()): the options of a filter widget.
Options(d, col) == {r[col] : r \in d}

\* d[d[col].isin(S)]
IsIn(d, col, S) == {r \in d : r[col] \in S}

\* `d is None`: a dataframe is never None here.
IsNone(d) == FALSE

\* d.empty
Empty(d) == d = {}

\* d[col].sum(): NaN cells are skipped.
RECURSIVE SumCol(_, _)
SumCol(d, col) ==
  IF d = {} THEN 0
  ELSE LET r == CHOOSE x \in d : TRUE
       IN (IF r[col] = NaN THEN 0 ELSE r[col][1]) + SumCol(d \ {r}, col)

\* d[col].nunique(): missing cells are not counted.
NUnique(d, col) == Cardinality({r[col] : r \in d} \ {Null})

\* x.sum() / 1000 of the quantity column.  Tonnes are kept in thousandths
\* (fixed point), so the quotient of a sum of kilograms is that sum.
Tonnes(d) == SumCol(d, "qty")

\* ------------------------------------------------ access-scope restriction
\* The scope value used as stored.
ScopeAsStored(role, ufv) == ufv

\* Lines 357-358: a scalar scope of a DSM or ASM account becomes a list.
NormalizeScope(role, ufv) ==
  IF role \in {"DSM", "ASM"} /\ ufv.kind = "str" THEN List(ufv.v) ELSE ufv

\* d[col].isin(values) raises TypeError unless values is list-like: it does
\* for None and for a string.
ScopeRaises(role, ufv) ==
  role \in {"DSM", "ASM"} /\ NormalizeScope(role, ufv).kind # "list"

\* The chain with the ASM branch testing the DSM column.
ScopeFilterWrongColumn(d, role, ufv) ==
  LET f == NormalizeScope(role, ufv) IN
  CASE role = "RGM" -> {r \in d : f.kind = "str" /\ r.RGM \in f.v}
    [] role = "DSM" -> IsIn(d, "DSM", f.v)
    [] role = "ASM" -> IsIn(d, "DSM", f.v)
    [] role = "SO"  -> {r \in d : f.kind = "str" /\ r.SO \in f.v}
    [] OTHER -> d

\* Lines 360-363: the if / elif chain over the role.
ScopeFilter(d, role, ufv) ==
  LET f == NormalizeScope(role, ufv) IN
  CASE role = "RGM" -> {r \in d : f.kind = "str" /\ r.RGM \in f.v}
    [] role = "DSM" -> IsIn(d, "DSM", f.v)
    [] role = "ASM" -> IsIn(d, "ASM", f.v)
    [] role = "SO"  -> {r \in d : f.kind = "str" /\ r.SO \in f.v}
    [] OTHER -> d

WarnNoAccess == "No data available for your access level"
WarnNoSales == "No sales data available for the selected filters."

\* Lines 357-371 of main_dashboard_ui.
ScopeRestriction ==
  /\ pc = "scope"
  /\ IF ScopeRaises(user_role, user_filter_value)
     THEN /\ pc' = "error"
          /\ UNCHANGED <<df, df_hierarchical_filtered, warnings>>
     ELSE LET d == ScopeFilter(df_main, user_role, user_filter_value) IN
          /\ df' = d
          /\ IF Empty(d)
             THEN /\ warnings' = warnings \cup {WarnNoAccess}
                  /\ pc' = "returned"
                  /\ UNCHANGED df_hierarchical_filtered
             ELSE /\ df_hierarchical_filtered' = d
                  /\ pc' = "rgm"
                  /\ UNCHANGED warnings
  /\ UNCHANGED <<display, export>>
  /\ UNCHANGED <<df_main, columns, user_role, user_filter_value, offered,
                 selected, start_date_display, end_date_display, df_filtered,
                 summary, kpi, view_selection, table, prev>>
  /\ UNCHANGED <<appVars, ingestVars>>

\* ------------------------------------------------------ cascading filters
\* The filter applied whatever the selection.
CascadeAlways(d, col, sel) == IsIn(d, col, sel)

\* if selected := multiselect(...): d = d[d[col].isin(selected)]
Cascade(d, col, sel) == IF sel # {} THEN IsIn(d, col, sel) ELSE d

\* One cascading filter: shown to the roles of `roles`, its options the
\* values of the column in the dataframe as restricted so far.
CascadeStep(here, col, shown, next) ==
  /\ pc = here
  /\ offered' = shown
  /\ \E sel \in (IF shown THEN SUBSET Options(df_hierarchical_filtered, col)
                 ELSE {{}}) :
       /\ selected' = sel
       /\ df_hierarchical_filtered' =
            IF shown THEN Cascade(df_hierarchical_filtered, col, sel)
            ELSE df_hierarchical_filtered
  /\ pc' = next
  /\ UNCHANGED <<display, export>>
  /\ UNCHANGED <<df_main, columns, user_role, user_filter_value, df,
                 start_date_display, end_date_display, df_filtered, warnings,
                 summary, kpi, view_selection, table, prev>>
  /\ UNCHANGED <<appVars, ingestVars>>

\* The RGM filter shown whatever the role.
FilterByRGMForAll ==
  CascadeStep("rgm", "RGM", TRUE, "dsm")

FilterByRGM ==
  CascadeStep("rgm", "RGM", user_role \in {"SUPER_ADMIN", "ADMIN"}, "dsm")
FilterByDSM ==
  CascadeStep("dsm", "DSM",
              user_role \in {"SUPER_ADMIN", "ADMIN", "RGM", "DSM"}, "asm")
FilterByASM ==
  CascadeStep("asm", "ASM",
              user_role \in {"SUPER_ADMIN", "ADMIN", "RGM", "DSM"}, "cc")
FilterByCustomerClass ==
  CascadeStep("cc", "CustomerClass",
              user_role \in {"SUPER_ADMIN", "ADMIN", "RGM", "DSM", "ASM"}, "so")
FilterBySO ==
  CascadeStep("so", "SO", TRUE, "jc")
FilterByJC ==
  CascadeStep("jc", "JCPeriodNum", "JCPeriodNum" \in columns, "date")


\* --------------------------------------------------- date-range restriction
\* d['InvDate'].min().date() and .max().date()
MinDate(d) == CHOOSE x \in {r.InvDate : r \in d} : \A r \in d : x <= r.InvDate
MaxDate(d) == CHOOSE x \in {r.InvDate : r \in d} : \A r \in d : x >= r.InvDate

\* Lines 407-410: both ends of the range are inclusive.
DateRange(d, s, e) == {r \in d : r.InvDate >= s /\ r.InvDate <= e}

\* Lines 393-417 of main_dashboard_ui.  The minimum of no dates is NaT, and
\* NaT.date() raises.  The date picker offers the days between the minimum and
\* the maximum and returns start <= end; without "Filter by Date" the
\* displayed range is the whole of it.  After ChangeStartDate the run repeats
\* the previous one but for the start date.
DateRestriction ==
  /\ pc = "date"
  /\ IF df_hierarchical_filtered = {}
     THEN /\ pc' = "error"
          /\ UNCHANGED <<start_date_display, end_date_display, df_filtered,
                         warnings>>
     ELSE LET min_date == MinDate(df_hierarchical_filtered)
              max_date == MaxDate(df_hierarchical_filtered)
          IN \E filter_by_date \in BOOLEAN :
             \E start_date \in min_date..max_date :
             \E end_date \in start_date..max_date :
               /\ ~filter_by_date => start_date = min_date /\ end_date = max_date
               /\ prev # << >> =>
                    end_date = prev[1].end /\ start_date # prev[1].start
               /\ start_date_display' = start_date
               /\ end_date_display' = end_date
               /\ df_filtered' =
                    IF filter_by_date
                    THEN DateRange(df_hierarchical_filtered, start_date, end_date)
                    ELSE df_hierarchical_filtered
               /\ IF Empty(df_filtered')
                  THEN /\ warnings' = warnings \cup {WarnNoSales}
                       /\ pc' = "returned"
                  ELSE /\ pc' = "summary"
                       /\ UNCHANGED warnings
  /\ UNCHANGED <<display, export>>
  /\ UNCHANGED <<df_main, columns, user_role, user_filter_value, df,
                 df_hierarchical_filtered, offered, selected, summary, kpi,
                 view_selection, table, prev>>
  /\ UNCHANGED <<appVars, ingestVars>>

\* ------------------------------------------------------------- aggregation
\* Lines 419-434: the five summary metrics over df_filtered.
SummaryMetrics ==
  /\ pc = "summary"
  /\ summary' = << [summary_total_net_Volume |-> Tonnes(df_filtered),
                    summary_total_net_value |-> SumCol(df_filtered, "val"),
                    summary_unique_invoices |-> NUnique(df_filtered, "InvNum"),
                    summary_unique_dbs |-> NUnique(df_filtered, "BPName"),
                    Unique_prod_ctg |-> NUnique(df_filtered, "ProductCategory")] >>
  /\ pc' = "kpi"
  /\ UNCHANGED <<display, export>>
  /\ UNCHANGED <<df_main, columns, user_role, user_filter_value, df,
                 df_hierarchical_filtered, offered, selected,
                 start_date_display, end_date_display, df_filtered, warnings,
                 kpi, view_selection, table, prev>>
  /\ UNCHANGED <<appVars, ingestVars>>

\* The comparison computed over the date-restricted dataframe instead.
ComparisonOverDateFiltered(d, dsel, single_kpi_date) ==
  LET previous_day == single_kpi_date - PreviousDayDelta
      seven_day_start_date == single_kpi_date - SevenDayDelta
  IN [todays_volume |-> Tonnes({r \in dsel : r.InvDate = single_kpi_date}),
      yesterdays_volume |-> Tonnes({r \in dsel : r.InvDate = previous_day}),
      past_7_days_volume |->
        Tonnes({r \in dsel : /\ r.InvDate >= seven_day_start_date
                             /\ r.InvDate <= single_kpi_date})]

\* The comparison with the 7-day window cut to the selected date range.
ComparisonWindowInSelection(d, dsel, single_kpi_date) ==
  LET previous_day == single_kpi_date - PreviousDayDelta
      seven_day_start_date == single_kpi_date - SevenDayDelta
  IN [todays_volume |-> Tonnes({r \in d : r.InvDate = single_kpi_date}),
      yesterdays_volume |-> Tonnes({r \in d : r.InvDate = previous_day}),
      past_7_days_volume |->
        Tonnes({r \in dsel : /\ r.InvDate >= seven_day_start_date
                             /\ r.InvDate <= single_kpi_date})]

\* Lines 437-445: the three volumes anchored at the end date, over
\* d = df_hierarchical_filtered (dsel = df_filtered plays no part).
Comparison(d, dsel, single_kpi_date) ==
  LET previous_day == single_kpi_date - PreviousDayDelta
      seven_day_start_date == single_kpi_date - SevenDayDelta
  IN [todays_volume |-> Tonnes({r \in d : r.InvDate = single_kpi_date}),
      yesterdays_volume |-> Tonnes({r \in d : r.InvDate = previous_day}),
      past_7_days_volume |->
        Tonnes({r \in d : /\ r.InvDate >= seven_day_start_date
                          /\ r.InvDate <= single_kpi_date})]

\* Lines 436-450: the volume comparison over df_hierarchical_filtered.
VolumeComparison ==
  /\ pc = "kpi"
  /\ kpi' = << Comparison(df_hierarchical_filtered, df_filtered,
                          end_date_display) >>
  /\ pc' = "view"
  /\ UNCHANGED <<display, export>>
  /\ UNCHANGED <<df_main, columns, user_role, user_filter_value, df,
                 df_hierarchical_filtered, offered, selected,
                 start_date_display, end_date_display, df_filtered, warnings,
                 summary, view_selection, table, prev>>
  /\ UNCHANGED <<appVars, ingestVars>>


\* ------------------------------------------------------ grouped tables
\* The radio options of the role (lines 454-467).
OptionsForThisUser(role) ==
  CASE role \in {"SUPER_ADMIN", "ADMIN", "RGM"} ->
         {"Product Wise", "Distributor Wise", "DSM wise", "ASM wise", "SO Wise"}
    [] role \in {"DSM", "ASM"} ->
         {"Product Wise", "Distributor Wise", "ASM wise", "SO Wise"}
    [] role = "SO" -> {"Product Wise", "Distributor Wise", "SO Wise"}
    [] OTHER -> {"Product Wise", "Distributor Wise"}

\* The group columns of a view.
GroupCols(view, cols) ==
  CASE view = "Product Wise" ->
         IF "upd_prod_ctg" \in cols THEN {"ProductCategory", "upd_prod_ctg"}
         ELSE {"ProductCategory"}
    [] view = "Distributor Wise" -> {"BPCode", "BPName"}
    [] view = "DSM wise" -> {"DSM"}
    [] view = "ASM wise" -> {"ASM"}
    [] view = "SO Wise" -> {"SO", "ASM"}

\* The column whose distinct values a view counts.
CountCol(view) ==
  CASE view = "Product Wise" -> "BPName"
    [] view = "Distributor Wise" -> "ProductCategory"
    [] OTHER -> "BPCode"

\* The keys of d.groupby(cols): pandas drops the rows with a missing key.
GroupKeys(d, cols) ==
  {[c \in cols |-> r[c]] : r \in {x \in d : \A c \in cols : x[c] # Null}}

\* d.groupby(cols).agg(Total_Value=sum, Total_Tonnes=sum/1000, <count>=nunique)
GroupBy(d, cols, countCol) ==
  {LET g == {r \in d : \A c \in cols : r[c] = k[c]} IN
   [key |-> k,
    Total_Value |-> SumCol(g, "val"),
    Total_Tonnes |-> Tonnes(g),
    Count |-> NUnique(g, countCol)] : k \in GroupKeys(d, cols)}

\* .sort_values('Total_Tonnes', ascending=False): the orders of the groups
\* with non-increasing tonnage (the order of ties is not fixed).
SortValues(groups) ==
  {t \in [1..Cardinality(groups) -> groups] :
     /\ \A i, j \in DOMAIN t : i # j => t[i] # t[j]
     /\ \A i, j \in DOMAIN t : i < j => t[i].Total_Tonnes >= t[j].Total_Tonnes}

\* ------------------------------------------------------ display tables
\* A cell of a table column: a number, or a string given by its prefix, the
\* number it shows scaled by 10^decimals, its decimals and its suffix.
Number(n) == [type |-> "number", v |-> n]
Text(prefix, scaled, decimals, suffix) ==
  [type |-> "str", prefix |-> prefix, scaled |-> scaled,
   decimals |-> decimals, suffix |-> suffix]

\* n / d rounded to the nearest integer, as a format specification '.Nf'
\* rounds (n, d naturals; an exact half goes up).
RoundDiv(n, d) == (2 * n + d) \div (2 * d)

\* format_indian_currency(num), lines 306-320 ("Rs " stands for the rupee
\* sign and the space after it).
format_indian_currency(num) ==
  IF num.type # "number" THEN num
  ELSE IF num.v >= 10000000
         THEN Text("Rs ", RoundDiv(num.v * 100, 10000000), 2, " Cr")
  ELSE IF num.v >= 100000
         THEN Text("Rs ", RoundDiv(num.v * 100, 100000), 2, " L")
  ELSE IF num.v >= 1000
         THEN Text("Rs ", RoundDiv(num.v * 10, 1000), 1, " K")
  ELSE Text("Rs ", num.v, 0, "")

\* '{:.2f} T'.format(x) of a tonnage kept in thousandths.
FormatTonnes(x) == Text("", RoundDiv(x.v, 10), 2, " T")

\* The aggregate as a dataframe: its two numeric columns hold numbers.
Frame(t) ==
  [i \in DOMAIN t |->
     [key |-> t[i].key, Count |-> t[i].Count,
      Total_Value |-> Number(t[i].Total_Value),
      Total_Tonnes |-> Number(t[i].Total_Tonnes)]]

\* The two columns of a frame, formatted for display.
Formatted(frame) ==
  [i \in DOMAIN frame |->
     [frame[i] EXCEPT !.Total_Value = format_indian_currency(@),
                      !.Total_Tonnes = FormatTonnes(@)]]

\* The columns formatted in the aggregate itself, which is then displayed.
FormatInPlace(performance) ==
  [performance |-> Formatted(performance), display |-> Formatted(performance)]

\* X_display = X_performance.copy() and the two column assignments on the
\* copy: the aggregate and the display table after them.
DisplayCopy(performance) ==
  [performance |-> performance, display |-> Formatted(performance)]

\* Lines 452-591: the view the user chooses, its aggregate table, the display
\* table built from it and the aggregate handed to to_csv afterwards.
PerformanceView ==
  /\ pc = "view"
  /\ \E v \in OptionsForThisUser(user_role) :
       /\ view_selection' = v
       /\ \E t \in SortValues(GroupBy(df_filtered, GroupCols(v, columns),
                                      CountCol(v))) :
            LET built == DisplayCopy(Frame(t)) IN
            /\ table' = <<t>>
            /\ display' = <<built.display>>
            /\ export' = <<built.performance>>
  /\ pc' = "done"
  /\ UNCHANGED <<df_main, columns, user_role, user_filter_value, df,
                 df_hierarchical_filtered, offered, selected,
                 start_date_display, end_date_display, df_filtered, warnings,
                 summary, kpi, prev>>
  /\ UNCHANGED <<appVars, ingestVars>>

\* The user changes the start of the date range and nothing else: the script
\* runs again, every other widget keeps its value, so lines 357-394 compute
\* the dataframes, the minimum and the maximum they computed before and the
\* run is at the date picker with them.  The comparison just displayed is
\* kept to compare the next one with.
ChangeStartDate ==
  /\ pc = "done"
  /\ prev' = << [start |-> start_date_display, end |-> end_date_display,
                 kpi |-> kpi[1]] >>
  /\ pc' = "date"
  /\ start_date_display' = NaT
  /\ end_date_display' = NaT
  /\ df_filtered' = {}
  /\ summary' = << >>
  /\ kpi' = << >>
  /\ view_selection' = ""
  /\ table' = << >>
  /\ display' = << >>
  /\ export' = << >>
  /\ UNCHANGED <<df_main, columns, user_role, user_filter_value, df,
                 df_hierarchical_filtered, offered, selected, warnings>>
  /\ UNCHANGED <<appVars, ingestVars>>

\* ------------------------------------------------------------ SpecDash
OptionalColumns == {"JCPeriodNum", "upd_prod_ctg"}

\* The columns of the rows of RawRows.
AllColumns == {"InvDate", "qty", "val", "InvNum", "RGM", "DSM", "ASM", "SO",
               "CustomerClass", "JCPeriodNum", "BPCode", "BPName",
               "ProductCategory", "upd_prod_ctg"}

\* No error message (None).
NoError == << >>

\* The variables of SpecIngest, at rest while the other two specifications
\* are examined: no run has loaded the data.
IngestIdle ==
  /\ remote = [rows |-> {}, cols |-> AllColumns]
  /\ cache = << >>
  /\ ipc = "idle"
  /\ attempt = 0
  /\ waited = 0
  /\ fetched = ""
  /\ received = << >>
  /\ fresh = FALSE

\* The variables of Spec, at rest while main_dashboard_ui is examined.
AppIdle ==
  /\ store = [exists |-> FALSE, usernames |-> << >>]
  /\ credentials = << >>
  /\ authentication_status = "None"
  /\ username = ""
  /\ page = "Dashboard"
  /\ last = [op |-> "none", typed |-> "", outcome |-> "", saved |-> FALSE,
             routed |-> "login"]

\* main_dashboard_ui(df, user_role, user_filter_value, mod_time) is called.
DashEntry ==
  /\ pc = "scope"
  /\ df = {}
  /\ df_hierarchical_filtered = {}
  /\ offered = FALSE
  /\ selected = {}
  /\ start_date_display = NaT
  /\ end_date_display = NaT
  /\ df_filtered = {}
  /\ warnings = {}
  /\ summary = << >>
  /\ kpi = << >>
  /\ view_selection = ""
  /\ table = << >>
  /\ prev = << >>
  /\ display = << >>
  /\ export = << >>

InitDash ==
  /\ AppIdle
  /\ IngestIdle
  /\ \E file \in RawFiles : df_main = Normalize(file)
  /\ columns \in SUBSET OptionalColumns
  /\ user_role \in KnownRoles \cup UnknownRoles
  /\ user_filter_value \in ScopeValues(user_role)
  /\ DashEntry

NextDash ==
  \/ ScopeRestriction
  \/ FilterByRGM
  \/ FilterByDSM
  \/ FilterByASM
  \/ FilterByCustomerClass
  \/ FilterBySO
  \/ FilterByJC
  \/ DateRestriction
  \/ SummaryMetrics
  \/ VolumeComparison
  \/ PerformanceView
  \/ ChangeStartDate

SpecDash == InitDash /\ [][NextDash]_vars


\* =================================================== credentials and routing
\* str.lower() of the texts typed into the username field.
Lower(s) ==
  CASE s = "Bob" -> "bob"
    [] s = "Eve" -> "eve"
    [] s = "SuperAdmin" -> "superadmin"
    [] OTHER -> s

\* The texts typed into "Username" of the add form.
TypedUsernames == {"", "bob", "Bob", "eve", "superadmin", "SuperAdmin"}

\* No credentials.json on the server.
NoFile == [exists |-> FALSE, usernames |-> << >>]

\* hash_password: the stored value is a salted hash, never the text typed.
hash_password(password) == <<"bcrypt", password>>

\* default_credentials of initialize_credentials_if_needed (lines 77-94).
DefaultUsernames ==
  [u \in {"superadmin"} |->
     [name |-> "Super Admin", password |-> hash_password("initial_admin"),
      role |-> "SUPER_ADMIN", filter_value |-> NoneValue]]

\* load_credentials_from_ftp (lines 22-40): the file's content, or None when
\* the file is missing (error_perm) or when anything else fails.  `ok` is
\* whether the transfer and the JSON parse went through.
LoadCredentials(ok) ==
  IF store.exists /\ ok THEN <<store.usernames>> ELSE << >>

\* user_details.get("role") for credentials['usernames'].get(username, {}).
RoleOf(user_dict, u) ==
  IF u \in DOMAIN user_dict THEN user_dict[u].role ELSE "None"

\* Lines 617, 654-664: where an authenticated run is routed.
Routed(status, role, pg) ==
  IF status # "True" THEN "login"
  ELSE IF role = "SUPER_ADMIN" THEN pg ELSE "Dashboard"

\* The script run so far has loaded the credentials (lines 600-605) and the
\* data, and reached user_management_ui (line 661).
InUserManagement ==
  /\ store.exists
  /\ Routed(authentication_status,
            RoleOf(store.usernames, username), page) = "User Management"

Report(op, typed, outcome, saved, routed) ==
  [op |-> op, typed |-> typed, outcome |-> outcome, saved |-> saved,
   routed |-> routed]

\* initialize_credentials_if_needed (lines 63-101), when its load returns
\* None: the default file is saved and the script reruns, or the run stops.
InitializeCredentials ==
  /\ \E ok \in BOOLEAN : LoadCredentials(ok) = << >>
  /\ \E saved \in BOOLEAN :
       /\ store' = IF saved THEN [exists |-> TRUE, usernames |-> DefaultUsernames]
                   ELSE store
       /\ last' = Report("initialize", "", "", saved, "stopped")
  /\ credentials' = << >>
  /\ UNCHANGED <<authentication_status, username, page>>
  /\ UNCHANGED <<dashVars, ingestVars>>

\* Lines 601-605: the file is there but the second load fails; the run stops.
CredentialsUnavailable ==
  /\ store.exists
  /\ credentials' = << >>
  /\ last' = Report("load", "", "failed", FALSE, "stopped")
  /\ UNCHANGED <<store, authentication_status, username, page>>
  /\ UNCHANGED <<dashVars, ingestVars>>

\* authenticator.login() (line 615) with a submitted login form.
Login ==
  /\ store.exists
  /\ authentication_status # "True"
  /\ \E u \in DOMAIN store.usernames \cup {"ghost"}, password_ok \in BOOLEAN :
       LET ok == u \in DOMAIN store.usernames /\ password_ok IN
       /\ authentication_status' = IF ok THEN "True" ELSE "False"
       /\ username' = IF ok THEN u ELSE ""
       /\ last' = Report("login", u, IF ok THEN "ok" ELSE "incorrect", FALSE,
                         Routed(authentication_status',
                                RoleOf(store.usernames, username'), page))
  /\ credentials' = <<store.usernames>>
  /\ UNCHANGED <<store, page>>
  /\ UNCHANGED <<dashVars, ingestVars>>

\* authenticator.logout (line 623).
Logout ==
  /\ store.exists
  /\ authentication_status = "True"
  /\ authentication_status' = "None"
  /\ username' = ""
  /\ page' = "Dashboard"
  /\ credentials' = <<store.usernames>>
  /\ last' = Report("logout", "", "", FALSE, "login")
  /\ UNCHANGED store
  /\ UNCHANGED <<dashVars, ingestVars>>

\* The "Navigation" radio (line 656), shown to SUPER_ADMIN only.
Navigate ==
  /\ store.exists
  /\ authentication_status = "True"
  /\ RoleOf(store.usernames, username) = "SUPER_ADMIN"
  /\ \E p \in {"Dashboard", "User Management"} :
       /\ page' = p
       /\ last' = Report("navigate", "", "", FALSE, p)
  /\ credentials' = <<store.usernames>>
  /\ UNCHANGED <<store, authentication_status, username>>
  /\ UNCHANGED <<dashVars, ingestVars>>

\* A script run without a submitted form: the page is rendered again.
Render ==
  /\ store.exists
  /\ credentials' = <<store.usernames>>
  /\ last' = Report("render", "", "", FALSE,
                    Routed(authentication_status,
                           RoleOf(store.usernames, username), page))
  /\ UNCHANGED <<store, authentication_status, username, page>>
  /\ UNCHANGED <<dashVars, ingestVars>>


\* ------------------------------------------------------- user management
\* The texts typed into "Full Name" and "Password" of the add form.
TypedNames == {"", "Ann"}
TypedPasswords == {"", "pw"}

\* The role options of both forms (lines 202 and 251).
role_options == {"ADMIN", "RGM", "DSM", "ASM", "SO"}

\* st.selectbox over the options: one of them, None when there is none.
Selectbox(options) ==
  IF options = {} THEN {NoneValue} ELSE {Str(x) : x \in options}

\* st.multiselect over the options: any list of them.
Multiselect(options) == {List(S) : S \in SUBSET options}

\* The filter values the forms can return for a role (lines 204-214 and
\* 255-284): a selectbox for RGM and SO, a multiselect for DSM and ASM over
\* the names of the column in the data, None for ADMIN.
FilterValueChoices(role, d) ==
  CASE role \in {"RGM", "SO"} -> Selectbox(Options(d, role))
    [] role \in {"DSM", "ASM"} -> Multiselect(Options(d, role))
    [] OTHER -> {NoneValue}

\* The test compares the username with the display names.
UsernameInNames(new_username, user_dict) ==
  new_username \in {user_dict[u].name : u \in DOMAIN user_dict}

\* Line 219: new_username in user_dict
UsernameTaken(new_username, user_dict) == new_username \in DOMAIN user_dict

\* Every account is offered.
AllUsers(user_dict) == DOMAIN user_dict

\* Lines 236 and 298: the accounts offered for editing and for deletion.
OtherUsers(user_dict) == {u \in DOMAIN user_dict : u # "superadmin"}

\* The add form submitted (lines 192-231).  The role and the filter value
\* of the form are read only when the account is created.
AddUser ==
  /\ InUserManagement
  /\ \E typed \in TypedUsernames, new_name \in TypedNames,
        new_password \in TypedPasswords :
       LET new_username == Lower(typed)
           user_dict == store.usernames
       IN IF new_username = "" \/ new_name = "" \/ new_password = ""
          THEN /\ credentials' = <<user_dict>>
               /\ last' = Report("add", typed, "missing", FALSE,
                                 "User Management")
               /\ UNCHANGED store
          ELSE IF UsernameTaken(new_username, user_dict)
          THEN /\ credentials' = <<user_dict>>
               /\ last' = Report("add", typed, "exists", FALSE,
                                 "User Management")
               /\ UNCHANGED store
          ELSE \E new_role \in role_options, save_ok \in BOOLEAN :
               \E new_filter_value \in FilterValueChoices(new_role, df_main) :
                 LET added == [u \in DOMAIN user_dict \cup {new_username} |->
                                 IF u = new_username
                                 THEN [name |-> new_name,
                                       password |-> hash_password(new_password),
                                       role |-> new_role,
                                       filter_value |-> new_filter_value]
                                 ELSE user_dict[u]]
                 IN /\ Cardinality(DOMAIN added) <= MaxUsers + 1
                    /\ credentials' = <<added>>
                    /\ store' = IF save_ok
                                THEN [exists |-> TRUE, usernames |-> added]
                                ELSE store
                    /\ last' = Report("add", typed, "added", save_ok,
                                      "User Management")
  /\ UNCHANGED <<authentication_status, username, page>>
  /\ UNCHANGED <<dashVars, ingestVars>>

\* The edit form submitted (lines 233-294).
EditUser ==
  /\ InUserManagement
  /\ \E user_to_edit \in OtherUsers(store.usernames),
        edited_name \in TypedNames \ {""},
        edited_password \in TypedPasswords,
        edited_role \in role_options, save_ok \in BOOLEAN :
     \E edited_filter_value \in FilterValueChoices(edited_role, df_main) :
       LET user_dict == store.usernames
           edited == [user_dict EXCEPT
                        ![user_to_edit].name = edited_name,
                        ![user_to_edit].role = edited_role,
                        ![user_to_edit].filter_value = edited_filter_value,
                        ![user_to_edit].password =
                           IF edited_password # ""
                           THEN hash_password(edited_password) ELSE @]
       IN /\ credentials' = <<edited>>
          /\ store' = IF save_ok THEN [exists |-> TRUE, usernames |-> edited]
                      ELSE store
          /\ last' = Report("edit", user_to_edit, "edited", save_ok,
                            "User Management")
  /\ UNCHANGED <<authentication_status, username, page>>
  /\ UNCHANGED <<dashVars, ingestVars>>

\* The delete form submitted (lines 296-304).  Without another account the
\* selectbox returns None and nothing is deleted.
DeleteUser ==
  /\ InUserManagement
  /\ LET user_dict == store.usernames IN
     IF OtherUsers(user_dict) = {}
     THEN /\ credentials' = <<user_dict>>
          /\ last' = Report("delete", "", "none", FALSE, "User Management")
          /\ UNCHANGED store
     ELSE \E user_to_delete \in OtherUsers(user_dict), save_ok \in BOOLEAN :
            LET deleted == [u \in DOMAIN user_dict \ {user_to_delete} |->
                              user_dict[u]]
            IN /\ credentials' = <<deleted>>
               /\ store' = IF save_ok
                           THEN [exists |-> TRUE, usernames |-> deleted]
                           ELSE store
               /\ last' = Report("delete", user_to_delete, "deleted", save_ok,
                                 "User Management")
  /\ UNCHANGED <<authentication_status, username, page>>
  /\ UNCHANGED <<dashVars, ingestVars>>

\* ---------------------------------------------------------------- Spec
\* The data of the session: the first rows of RawRows, none to MaxRows.
Init ==
  /\ store = NoFile
  /\ credentials = << >>
  /\ authentication_status = "None"
  /\ username = ""
  /\ page = "Dashboard"
  /\ last = Report("none", "", "", FALSE, "login")
  /\ \E n \in 0..MaxRows : df_main = Normalize(1..n)
  /\ columns = {}
  /\ user_role = "None"
  /\ user_filter_value = NoneValue
  /\ DashEntry
  /\ IngestIdle

Next ==
  \/ InitializeCredentials
  \/ CredentialsUnavailable
  \/ Login
  \/ Logout
  \/ Navigate
  \/ Render
  \/ AddUser
  \/ EditUser
  \/ DeleteUser

Spec == Init /\ [][Next]_vars

\* ----------------------------------------------------------- SpecIngest
\* The data load of the script runs of one authenticated session.
\* The parameters of download_and_read_parquet_with_retry (line 105).
max_retries == 3
delay == 5

\* The columns a raw file lacks, at most.
MaxMissing == 1

\* The files the server can hold: the rows of a raw file under all columns
\* but at most MaxMissing of them.
RemoteFiles ==
  {[rows |-> S, cols |-> AllColumns \ M] :
     S \in RawFiles,
     M \in {X \in SUBSET AllColumns : Cardinality(X) <= MaxMissing}}

\* The exceptions a fetch attempt raises: one of ftplib.all_errors (the file
\* is locked or missing, the connection drops) and one that is not (the
\* bytes fetched are not a whole parquet file).
ftplib_all_errors == {"error_temp"}
Exceptions == ftplib_all_errors \cup {"ArrowInvalid"}

\* The error messages of load_main_data_from_ftp.
CouldNotLoad ==
  <<"Data Error: Could not load the main data file from FTP after multiple attempts. The file might be locked or empty.">>
InvDateNotFound == <<"Data Error: The column 'InvDate' was not found.">>
FtpError(e) ==
  <<"FTP Error: Could not connect or find the data file. Please check the path and credentials. Details: ", e>>
ErrorAfterRetries(e) ==
  <<"Error after retries: Failed to load data from FTP. Details: ", e>>

\* What load_main_data_from_ftp returns: a dataframe (its rows and its
\* columns) and no error message, or None and an error message.  The
\* modification time and the status message are left out.
Returned(d, cols) ==
  [df |-> <<[rows |-> d, columns |-> cols]>>, error_message |-> NoError]
Failed(error_msg) == [df |-> << >>, error_message |-> error_msg]

\* The two except clauses of load_main_data_from_ftp (lines 174-179).
ExceptMessage(e) ==
  IF e \in ftplib_all_errors THEN FtpError(e) ELSE ErrorAfterRetries(e)

\* Lines 155-172 on the dataframe read from the file: 'InvDate' is the one
\* column looked for; the conversions of the other columns are skipped for a
\* column the file lacks.
ReadAndNormalize(file) ==
  IF "InvDate" \notin file.cols THEN Failed(InvDateNotFound)
  ELSE Returned(Normalize(file.rows), file.cols)

\* The loop goes on after every failed attempt.
RetryAlways(failed) == TRUE

\* Line 125: attempt + 1 < max_retries, for the index of the failed attempt.
RetriesLeft(failed) == failed + 1 < max_retries

\* Only a result without an error message is kept.
CacheSuccessOnly(result) ==
  IF result.error_message = NoError THEN <<result>> ELSE << >>

\* st.cache_data keeps whatever the function returns.
CacheStore(result) == <<result>>

\* The states in which no script run is under way.
Resting == {"idle", "stopped", "dashboard"}

\* Lines 631-664 on the result of load_main_data_from_ftp: an error message
\* is shown and the run stops, otherwise the run goes on to the page with
\* the dataframe.
Deliver(result) ==
  /\ received' = <<result>>
  /\ IF result.error_message # NoError
     THEN /\ ipc' = "stopped"
          /\ UNCHANGED <<df_main, columns>>
     ELSE /\ ipc' = "dashboard"
          /\ df_main' = result.df[1].rows
          /\ columns' = result.df[1].columns \cap OptionalColumns

\* A script run of the authenticated session reaches line 631.  With an
\* entry in the cache the call returns it; without one the function body
\* runs: the FTP login (line 141) fails, or the download begins.
BeginCycle ==
  /\ ipc \in Resting
  /\ IF cache # << >>
     THEN /\ fresh' = FALSE
          /\ Deliver(cache[1])
          /\ UNCHANGED <<cache, attempt, waited, fetched>>
     ELSE /\ fresh' = TRUE
          /\ attempt' = 0
          /\ waited' = 0
          /\ \E login_ok \in BOOLEAN :
               IF login_ok
               THEN /\ ipc' = "fetch"
                    /\ fetched' = ""
                    /\ received' = << >>
                    /\ UNCHANGED <<cache, df_main, columns>>
               ELSE LET result == Failed(ExceptMessage("error_temp")) IN
                    /\ fetched' = "error_temp"
                    /\ cache' = CacheStore(result)
                    /\ Deliver(result)
  /\ UNCHANGED remote
  /\ UNCHANGED <<appVars, dashRun>>

\* One pass of the loop of download_and_read_parquet_with_retry (lines
\* 109-126) and, when the download ends with it, the rest of
\* load_main_data_from_ftp and of the run.
FetchAttempt ==
  /\ ipc = "fetch"
  /\ \E outcome \in {"ok", "zero_bytes"} \cup Exceptions :
       /\ fetched' = outcome
       /\ attempt' = attempt + 1
       /\ IF outcome \in Exceptions /\ RetriesLeft(attempt)
          THEN /\ ipc' = "sleep"
               /\ UNCHANGED <<cache, received, df_main, columns>>
          ELSE LET result ==
                     CASE outcome = "ok" -> ReadAndNormalize(remote)
                       [] outcome = "zero_bytes" -> Failed(CouldNotLoad)
                       [] OTHER -> Failed(ExceptMessage(outcome))
               IN /\ cache' = CacheStore(result)
                  /\ Deliver(result)
  /\ UNCHANGED <<remote, waited, fresh>>
  /\ UNCHANGED <<appVars, dashRun>>

\* time.sleep(delay) (line 124), then the loop goes on; past its last pass
\* the function returns None (line 127).
Sleep ==
  /\ ipc = "sleep"
  /\ waited' = waited + delay
  /\ IF attempt < max_retries
     THEN /\ ipc' = "fetch"
          /\ UNCHANGED <<cache, received, df_main, columns>>
     ELSE LET result == Failed(CouldNotLoad) IN
          /\ cache' = CacheStore(result)
          /\ Deliver(result)
  /\ UNCHANGED <<remote, attempt, fetched, fresh>>
  /\ UNCHANGED <<appVars, dashRun>>

\* The ttl of the cache entry (line 131) has passed.
Expire ==
  /\ ipc \in Resting
  /\ cache # << >>
  /\ cache' = << >>
  /\ UNCHANGED <<remote, ipc, attempt, waited, fetched, received, fresh>>
  /\ UNCHANGED <<appVars, dashVars>>

\* The "Refresh Data" button (lines 620-622): the cache is cleared and the
\* script is run again.
Refresh ==
  /\ ipc \in {"stopped", "dashboard"}
  /\ cache' = << >>
  /\ ipc' = "idle"
  /\ UNCHANGED <<remote, attempt, waited, fetched, received, fresh>>
  /\ UNCHANGED <<appVars, dashVars>>

\* superadmin is logged in, the server holds some file, nothing is cached.
InitIngest ==
  /\ store = [exists |-> TRUE, usernames |-> DefaultUsernames]
  /\ credentials = <<DefaultUsernames>>
  /\ authentication_status = "True"
  /\ username = "superadmin"
  /\ page = "Dashboard"
  /\ last = Report("login", "superadmin", "ok", FALSE, "Dashboard")
  /\ df_main = {}
  /\ columns = {}
  /\ user_role = "SUPER_ADMIN"
  /\ user_filter_value = NoneValue
  /\ DashEntry
  /\ remote \in RemoteFiles
  /\ cache = << >>
  /\ ipc = "idle"
  /\ attempt = 0
  /\ waited = 0
  /\ fetched = ""
  /\ received = << >>
  /\ fresh = FALSE

NextIngest ==
  \/ BeginCycle
  \/ FetchAttempt
  \/ Sleep
  \/ Expire
  \/ Refresh

SpecIngest == InitIngest /\ [][NextIngest]_vars

\* ================================================================ claims
\* Volume of the rows of d dated lo..hi, in thousandths of a tonne.
VolumeOn(d, lo, hi) == Tonnes({r \in d : r.InvDate >= lo /\ r.InvDate <= hi})

\* The statements main_dashboard_ui reaches after the date restriction.
AfterDate == {"summary", "kpi", "view", "done"}

\* C1: once the access-scope restriction has run, the dataframe is the whole
\* input for SUPER_ADMIN and ADMIN, exactly the rows whose RGM (SO) cell
\* equals the scalar scope for RGM (SO), and exactly the rows whose DSM (ASM)
\* cell is in the scope list for DSM (ASM).
C1_ScopeExact ==
  pc \notin {"scope", "error"} =>
    /\ user_role \in {"SUPER_ADMIN", "ADMIN"} => df = df_main
    /\ user_role \in {"RGM", "SO"} =>
         df = {r \in df_main : Str(r[user_role]) = user_filter_value}
    /\ user_role \in {"DSM", "ASM"} /\ user_filter_value.kind = "list" =>
         df = {r \in df_main : r[user_role] \in user_filter_value.v}

\* C1 witness: an ASM account with a list scope that keeps some rows and
\* drops others.
C1_Witness ==
  /\ pc = "rgm"
  /\ user_role = "ASM"
  /\ user_filter_value.kind = "list"
  /\ df # {}
  /\ df # df_main

\* C2 (as claimed): when main_dashboard_ui has finished for a role that is
\* none of the six, the dataframe is the input unchanged and a warning was
\* emitted.
C2_UnknownRoleWarned ==
  (pc \in {"done", "returned"} /\ user_role \notin KnownRoles) =>
    /\ df = df_main
    /\ warnings # {}

\* C6: an empty dataframe after the scope restriction, or after the cascading
\* filters and the date range, ends the call with the no-data warning and
\* with no summary, no comparison and no table; it is never an error.
C6_NoDataIsWarning ==
  /\ (pc \notin {"scope", "error"} /\ df = {}) =>
       /\ pc = "returned"
       /\ WarnNoAccess \in warnings
       /\ summary = << >> /\ kpi = << >> /\ table = << >>
  /\ (pc \in AfterDate \cup {"returned"} /\ df # {} /\ df_filtered = {}) =>
       /\ pc = "returned"
       /\ WarnNoSales \in warnings
       /\ summary = << >> /\ kpi = << >> /\ table = << >>

\* C6 witness: the scope left rows, the chosen date range holds none of them.
C6_Witness ==
  /\ pc = "returned"
  /\ df_hierarchical_filtered # {}
  /\ df_filtered = {}
  /\ WarnNoSales \in warnings

\* C7 (as claimed): the three comparative volumes are those of the dataframe
\* restricted by the access scope only.
C7_ComparisonOverScopeOnly ==
  kpi # << >> =>
    /\ kpi[1].todays_volume = VolumeOn(df, end_date_display, end_date_display)
    /\ kpi[1].yesterdays_volume =
         VolumeOn(df, end_date_display - 1, end_date_display - 1)
    /\ kpi[1].past_7_days_volume =
         VolumeOn(df, end_date_display - 6, end_date_display)

\* C7 (amended): the three comparative volumes are those of the dataframe
\* restricted by the access scope and the cascading filters, before the
\* date-range restriction.
C7_ComparisonBeforeDateRange ==
  kpi # << >> =>
    /\ kpi[1].todays_volume =
         VolumeOn(df_hierarchical_filtered, end_date_display, end_date_display)
    /\ kpi[1].yesterdays_volume =
         VolumeOn(df_hierarchical_filtered, end_date_display - 1,
                  end_date_display - 1)
    /\ kpi[1].past_7_days_volume =
         VolumeOn(df_hierarchical_filtered, end_date_display - 6,
                  end_date_display)

\* C7 witness: the previous-day volume counts a row the date range excludes.
C7_Witness ==
  /\ kpi # << >>
  /\ start_date_display = end_date_display
  /\ df_filtered # df_hierarchical_filtered
  /\ kpi[1].yesterdays_volume > 0

\* C8: two runs that differ in the start date only and both display the
\* comparison display the same three volumes.
C8_StartDateIndependent ==
  (/\ prev # << >>
   /\ kpi # << >>
   /\ end_date_display = prev[1].end
   /\ start_date_display # prev[1].start) => kpi[1] = prev[1].kpi

\* C8 witness: the second run's range is shorter, and the 7-day volume counts
\* a row that only the first run's range held.
C8_Witness ==
  /\ prev # << >>
  /\ kpi # << >>
  /\ end_date_display = prev[1].end
  /\ start_date_display > prev[1].start
  /\ kpi[1].past_7_days_volume > Tonnes(df_filtered)

\* Sum of Total_Value over the rows of an aggregate table.
RECURSIVE SumTotalValue(_)
SumTotalValue(t) ==
  IF t = << >> THEN 0 ELSE Head(t).Total_Value + SumTotalValue(Tail(t))

\* C9 (as claimed): for every view, the Total_Value of the groups add up to
\* the total line value of the filtered dataframe.
C9_GroupTotalsAdditive ==
  table # << >> => SumTotalValue(table[1]) = SumCol(df_filtered, "val")

\* C10: a cascading filter with an empty selection leaves the dataframe as
\* the previous step produced it.
C10_EmptySelectionNoOp ==
  [][(pc \in {"rgm", "dsm", "asm", "cc", "so", "jc"} /\ selected' = {}) =>
       df_hierarchical_filtered' = df_hierarchical_filtered]_vars

\* C10 witness: the DSM filter was shown, nothing was selected, and rows of
\* more than one DSM remain.
C10_Witness ==
  /\ pc = "asm"
  /\ offered
  /\ selected = {}
  /\ df_hierarchical_filtered # {}
  /\ Cardinality(Options(df_hierarchical_filtered, "DSM")) > 1


\* The accounts of a user dictionary with role SUPER_ADMIN.
SuperAdmins(user_dict) ==
  {u \in DOMAIN user_dict : user_dict[u].role = "SUPER_ADMIN"}

\* The user of the script run is authenticated and has role SUPER_ADMIN in
\* the credentials the run loaded.
RunBySuperAdmin ==
  /\ authentication_status' = "True"
  /\ RoleOf(store.usernames, username') = "SUPER_ADMIN"

\* C3 (as claimed): a script run reaches user management only for an
\* authenticated SUPER_ADMIN, and it writes the credential store only then,
\* or to create the default file when there is none.
C3_OnlySuperAdminWrites ==
  [][/\ last'.routed = "User Management" => RunBySuperAdmin
     /\ last'.saved => (RunBySuperAdmin \/ ~store.exists)]_vars

\* C4: the stored accounts with role SUPER_ADMIN are exactly 'superadmin',
\* in the file and in the dictionary a run worked on.
C4_OneSuperAdmin ==
  /\ store.exists => SuperAdmins(store.usernames) = {"superadmin"}
  /\ credentials # << >> => SuperAdmins(credentials[1]) = {"superadmin"}

\* C4 witness: an account was added, then deleted, and the deletion saved.
C4_Witness ==
  /\ last.op = "delete"
  /\ last.saved
  /\ last.typed = "bob"
  /\ "superadmin" \in DOMAIN store.usernames

\* The lower-cased form of the usernames typed, written out.
LowerCased(s) ==
  IF s = "Bob" THEN "bob"
  ELSE IF s = "Eve" THEN "eve"
  ELSE IF s = "SuperAdmin" THEN "superadmin" ELSE s

\* C5: an add request whose lower-cased username is a key of the store
\* changes neither the store nor the user dictionary.
C5_DuplicateRejected ==
  [][(last'.op = "add" /\ LowerCased(last'.typed) \in DOMAIN store.usernames)
       => /\ store' = store
          /\ credentials' = <<store.usernames>>
          /\ last'.outcome \in {"exists", "missing"}]_vars

\* C5 witness: 'Bob' was typed while 'bob' existed, and the request was
\* rejected as a duplicate.
C5_Witness ==
  /\ last.op = "add"
  /\ last.typed = "Bob"
  /\ last.outcome = "exists"
  /\ "bob" \in DOMAIN store.usernames


\* The level of a hierarchy filter, and of a role (0 for the roles above the
\* hierarchy, the lowest level for a role outside it).
FilterLevel(col) ==
  CASE col = "RGM" -> 1 [] col = "DSM" -> 2 [] col = "ASM" -> 3 [] OTHER -> 4
RoleLevel(role) ==
  CASE role \in {"SUPER_ADMIN", "ADMIN"} -> 0
    [] role = "RGM" -> 1 [] role = "DSM" -> 2 [] role = "ASM" -> 3
    [] OTHER -> 4

\* The hierarchy filter whose step has just run, by the statement reached.
FilterJustRun ==
  CASE pc = "dsm" -> "RGM" [] pc = "asm" -> "DSM" [] pc = "cc" -> "ASM"
    [] pc = "jc" -> "SO" [] OTHER -> ""

\* C11: whether a hierarchy filter is shown depends on the role alone (RGM:
\* SUPER_ADMIN and ADMIN; DSM and ASM: those and RGM and DSM; SO: everyone),
\* and no role is shown a filter of a level above its own.
C11_FiltersByRole ==
  /\ pc = "dsm" => (offered <=> user_role \in {"SUPER_ADMIN", "ADMIN"})
  /\ pc \in {"asm", "cc"} =>
       (offered <=> user_role \in {"SUPER_ADMIN", "ADMIN", "RGM", "DSM"})
  /\ pc = "jc" => offered
  /\ (FilterJustRun # "" /\ offered) =>
       FilterLevel(FilterJustRun) >= RoleLevel(user_role)

\* C11 witness: an ASM account has passed the DSM filter step without being
\* shown the filter, with rows of more than one DSM in its scope.
C11_Witness ==
  /\ pc = "asm"
  /\ user_role = "ASM"
  /\ ~offered
  /\ Cardinality(Options(df_hierarchical_filtered, "DSM")) > 1

\* C16: for a DSM or ASM account with a scalar scope x the scope restriction
\* does not fail and yields the rows it yields for the list [x].
C16_ScalarAsSingleton ==
  (/\ pc \notin {"scope"}
   /\ user_role \in {"DSM", "ASM"}
   /\ user_filter_value.kind = "str") =>
     /\ pc # "error"
     /\ df = {r \in df_main : r[user_role] \in user_filter_value.v}
     /\ df = ScopeFilter(df_main, user_role, List(user_filter_value.v))

\* C16 witness: a DSM account with a scalar scope that keeps some rows and
\* drops others.
C16_Witness ==
  /\ pc = "rgm"
  /\ user_role = "DSM"
  /\ user_filter_value.kind = "str"
  /\ df # {}
  /\ df # df_main

\* The statements at which df_hierarchical_filtered is in use.
InCascade == {"rgm", "dsm", "asm", "cc", "so", "jc", "date"}

\* C19: from a non-empty scoped dataframe, selections among the options
\* offered keep the dataframe non-empty through every cascading step, the
\* date bounds are defined (the date step never fails), and a run that
\* returns without data after the scope restriction does so at the date range.
C19_CascadeKeepsRows ==
  /\ pc \in InCascade \cup AfterDate => df_hierarchical_filtered # {}
  /\ pc = "error" => ScopeRaises(user_role, user_filter_value)
  /\ (pc = "returned" /\ df # {}) =>
       df_hierarchical_filtered # {} /\ df_filtered = {}

\* C19 witness: a selection has narrowed the dataframe and the date picker
\* has its bounds.
C19_Witness ==
  /\ pc = "summary"
  /\ df_hierarchical_filtered # df
  /\ start_date_display = MinDate(df_hierarchical_filtered)
  /\ end_date_display = MaxDate(df_hierarchical_filtered)


\* C17: in every view the export is the raw aggregate (numbers, as grouped),
\* the display table is the aggregate with its two columns formatted from
\* those numbers, row by row, and building it leaves the aggregate's
\* Total_Value and Total_Tonnes as they were.
C17_ExportRawDisplayFormatted ==
  pc = "done" =>
    /\ Len(export[1]) = Len(table[1])
    /\ Len(display[1]) = Len(table[1])
    /\ \A i \in DOMAIN table[1] :
         /\ export[1][i].key = table[1][i].key
         /\ display[1][i].key = table[1][i].key
         /\ export[1][i].Total_Value = Number(table[1][i].Total_Value)
         /\ export[1][i].Total_Tonnes = Number(table[1][i].Total_Tonnes)
         /\ display[1][i].Total_Value.type = "str"
         /\ display[1][i].Total_Tonnes.type = "str"
         /\ display[1][i].Total_Value =
              format_indian_currency(Number(table[1][i].Total_Value))
         /\ display[1][i].Total_Tonnes =
              FormatTonnes(Number(table[1][i].Total_Tonnes))

\* C17 witness: a view of two groups, one shown in thousands and one in
\* units, each exported as the number it is.
C17_Witness ==
  /\ pc = "done"
  /\ Len(table[1]) = 2
  /\ display[1][1].Total_Value = Text("Rs ", 20, 1, " K")
  /\ display[1][1].Total_Tonnes = Text("", 150, 2, " T")
  /\ export[1][1].Total_Value = Number(2000)
  /\ display[1][2].Total_Value = Text("Rs ", 500, 0, "")


\* The shape of scope value a role goes with.
ScopeShape(role) ==
  CASE role \in {"RGM", "SO"} -> "str"
    [] role \in {"DSM", "ASM"} -> "list"
    [] OTHER -> "none"

\* C15: every stored account has the scope shape of its role: a single name
\* for RGM and SO, a list of names for DSM and ASM, no scope for ADMIN and
\* SUPER_ADMIN.
C15_ScopeShapeByRole ==
  \A u \in DOMAIN store.usernames :
    store.usernames[u].filter_value.kind = ScopeShape(store.usernames[u].role)


\* The run has the result of a call whose body it executed.
FreshResult == ipc \in {"stopped", "dashboard"} /\ fresh

\* C14: a download makes at most max_retries fetch attempts and has slept
\* the delay once after each failed attempt but the last one; when the call
\* got no readable file (every attempt raised, or the file had no bytes, or
\* the login failed) it returns an error message and no dataframe, and the
\* run stops.
C14_RetriesBoundedAndFailureStops ==
  /\ attempt <= max_retries
  /\ ipc = "fetch" => waited = delay * attempt /\ attempt < max_retries
  /\ ipc = "sleep" => waited = delay * (attempt - 1) /\ attempt < max_retries
  /\ FreshResult =>
       /\ attempt >= 1 => waited = delay * (attempt - 1)
       /\ fetched \in Exceptions /\ attempt >= 1 => attempt = max_retries
       /\ fetched # "ok" =>
            /\ received[1].error_message # NoError
            /\ received[1].df = << >>
            /\ ipc = "stopped"
  /\ ipc = "dashboard" =>
       received[1].error_message = NoError /\ received[1].df # << >>

\* C14 witness: three attempts raised, two sleeps were made, the run stopped
\* on the error message.
C14_Witness ==
  /\ FreshResult
  /\ attempt = max_retries
  /\ waited = delay * (max_retries - 1)
  /\ fetched = "ArrowInvalid"
  /\ ipc = "stopped"
  /\ received[1] = Failed(ErrorAfterRetries("ArrowInvalid"))


\* The columns the pipeline relies on: all but the two it treats as optional.
RequiredColumns == AllColumns \ OptionalColumns

\* The column an error message names, "" when it names none.
ColumnNamed(error_msg) ==
  IF error_msg = InvDateNotFound THEN "InvDate" ELSE ""

\* C12: when the file read lacks a column the pipeline relies on, the run
\* stops on a data error naming a missing column and never reaches the
\* dashboard.
C12_MissingColumnReported ==
  (FreshResult /\ fetched = "ok" /\ RequiredColumns \ remote.cols # {}) =>
    /\ ipc = "stopped"
    /\ ColumnNamed(received[1].error_message) \in
         RequiredColumns \ remote.cols

\* C13: when the file read has rows and the invoice date of every one of
\* them fails to parse, the run stops on an error message instead of going
\* on with an empty dataframe.
C13_AllDatesBadIsFatal ==
  (/\ FreshResult
   /\ fetched = "ok"
   /\ "InvDate" \in remote.cols
   /\ remote.rows # {}
   /\ \A i \in remote.rows : ToDatetime(RawRows[i].InvDate) = NaT) =>
    /\ received[1].error_message # NoError
    /\ ipc = "stopped"

\* C18: the result of a call is cached whether it carries an error message
\* or a dataframe; a run that finds an entry in the cache gets that entry
\* and makes no fetch attempt, and a run that finds none (after expiry or
\* Refresh) executes the function body.
C18_FailureCachedLikeSuccess ==
  [][/\ (ipc \in {"fetch", "sleep"} /\ ipc' \in {"stopped", "dashboard"}) =>
          cache' = received'
     /\ BeginCycle =>
          IF cache # << >>
          THEN /\ received' = cache
               /\ cache' = cache
               /\ ~fresh'
               /\ ipc' \in {"stopped", "dashboard"}
               /\ attempt' = attempt /\ waited' = waited
               /\ fetched' = fetched
          ELSE /\ fresh'
               /\ \/ ipc' = "fetch"
                  \/ cache' = received' /\ fetched' = "error_temp"]_vars

\* C18 witness: a run got the cached error of an earlier run whose three
\* attempts had raised.
C18_Witness ==
  /\ ipc = "stopped"
  /\ ~fresh
  /\ cache # << >>
  /\ received = cache
  /\ received[1] = Failed(FtpError("error_temp"))
  /\ attempt = max_retries

====
